---- MODULE Spec2Model ----
(***************************************************************************)
(* Model of the order-book bot core: the symbol registry with its periodic *)
(* refresh task (state.rs), symbol validation, and the cache-aside order   *)
(* book acquisition (state.rs, redis.rs, binance.rs), and the depth filter *)
(* as state.rs and as order_book.rs write it.                              *)
(*                                                                         *)
(* Three specifications share the variables: Spec (registry), CacheSpec    *)
(* (order-book path and cache store), FilterSpec (the filter on its own).  *)
(*                                                                         *)
(* Rust Strings that the code inspects character by character (symbols)    *)
(* are sequences of one-character strings; strings that are only compared  *)
(* for equality (statuses, error messages) are TLA+ strings.               *)
(***************************************************************************)
EXTENDS Integers, Sequences, FiniteSets, TLC

(***************************************************************************)
(* Bounds of the model.                                                    *)
(***************************************************************************)
\* concurrent validate_symbol calls
NumValidators == 1
\* refresh cycles that complete (failed cycles are not counted)
MaxCycles == 2
\* entries in one exchange-info response, and in a book of border entries
MaxListLen == 2

Validators == 1..NumValidators

(***************************************************************************)
(* String helpers: str::to_uppercase and str::ends_with on ASCII.          *)
(***************************************************************************)
LowerAlphabet ==
    <<"a","b","c","d","e","f","g","h","i","j","k","l","m",
      "n","o","p","q","r","s","t","u","v","w","x","y","z">>

UpperAlphabet ==
    <<"A","B","C","D","E","F","G","H","I","J","K","L","M",
      "N","O","P","Q","R","S","T","U","V","W","X","Y","Z">>

UpperChar(c) ==
    IF \E i \in 1..26 : LowerAlphabet[i] = c
    THEN UpperAlphabet[CHOOSE i \in 1..26 : LowerAlphabet[i] = c]
    ELSE c

to_uppercase(s) == [i \in 1..Len(s) |-> UpperChar(s[i])]

ends_with(s, suffix) ==
    /\ Len(s) >= Len(suffix)
    /\ SubSeq(s, Len(s) - Len(suffix) + 1, Len(s)) = suffix

USDT == <<"U","S","D","T">>

BTCUSDT == <<"B","T","C">> \o USDT
ETHUSDT == <<"E","T","H">> \o USDT
WBTCUSDT == <<"W","B","T","C">> \o USDT
WETHUSDT == <<"W","E","T","H">> \o USDT
SOLUSDT == <<"S","O","L">> \o USDT
ADAUSDT == <<"A","D","A">> \o USDT
SOLBTC == <<"S","O","L","B","T","C">>

DEPTH_EXEPCTIONS == {BTCUSDT, ETHUSDT, WBTCUSDT, WETHUSDT}

(***************************************************************************)
(* Inputs: what users type, and what the exchange lists.                   *)
(***************************************************************************)
RawInputs ==
    { <<"b","t","c">>, ETHUSDT, <<"w","b","t","c">>, <<"W","e","t","h">>,
      <<"s","o","l">>, <<"S","o","l","U","s","d","t">> }

ExchangeEntries ==
    { [symbol |-> SOLUSDT, status |-> "TRADING"],
      [symbol |-> BTCUSDT, status |-> "TRADING"],
      [symbol |-> SOLBTC,  status |-> "TRADING"],
      [symbol |-> ADAUSDT, status |-> "BREAK"],
      [symbol |-> ADAUSDT, status |-> "trading"] }

SeqsUpTo(S, n) == UNION { [1..k -> S] : k \in 0..n }

ExchangeInfoResponses == SeqsUpTo(ExchangeEntries, MaxListLen)

Range(f) == { f[i] : i \in DOMAIN f }

(***************************************************************************)
(* ServiceError and Result values.                                         *)
(***************************************************************************)
Ok(v) == [kind |-> "Ok", value |-> v]
SymbolNotFound(s) == [kind |-> "SymbolNotFound", value |-> s]
UnsupportedSymbol(s) == [kind |-> "UnsupportedSymbol", value |-> s]
Internal(msg) == [kind |-> "Internal", value |-> msg]

NoResult == [kind |-> "none", value |-> <<>>]

(***************************************************************************)
(* rust_decimal::Decimal: mantissa m and scale e stand for m * 10^(-e).    *)
(* Rust compares Decimals by numeric value; the model keeps every value in *)
(* its normalized form (no trailing fractional zeros), so that equality of *)
(* records is numeric equality.                                            *)
(***************************************************************************)
RECURSIVE Pow10(_)
Pow10(n) == IF n = 0 THEN 1 ELSE 10 * Pow10(n - 1)

Abs(x) == IF x < 0 THEN -x ELSE x

RECURSIVE normalize(_)
normalize(d) ==
    IF d.m = 0 THEN [m |-> 0, e |-> 0]
    ELSE IF d.e > 0 /\ d.m % 10 = 0
         THEN normalize([m |-> d.m \div 10, e |-> d.e - 1])
         ELSE d

Dec(m, e) == normalize([m |-> m, e |-> e])

Max(a, b) == IF a >= b THEN a ELSE b

\* mantissa of d at scale e (e >= d.e)
Rescale(d, e) == d.m * Pow10(e - d.e)

DecLe(a, b) == Rescale(a, Max(a.e, b.e)) <= Rescale(b, Max(a.e, b.e))
DecGe(a, b) == DecLe(b, a)
DecLt(a, b) == ~DecLe(b, a)

DecAdd(a, b) ==
    Dec(Rescale(a, Max(a.e, b.e)) + Rescale(b, Max(a.e, b.e)), Max(a.e, b.e))

DecSub(a, b) ==
    Dec(Rescale(a, Max(a.e, b.e)) - Rescale(b, Max(a.e, b.e)), Max(a.e, b.e))

DecMul(a, b) == Dec(a.m * b.m, a.e + b.e)

\* d / Decimal::ONE_HUNDRED, exact
DecDivHundred(d) == Dec(d.m, d.e + 2)

DecOne == Dec(1, 0)

\* Decimal::trunc_with_scale: drops the digits beyond `scale`, toward zero
trunc_with_scale(d, scale) ==
    IF d.e <= scale THEN d
    ELSE LET q == Abs(d.m) \div Pow10(d.e - scale)
         IN  [m |-> IF d.m < 0 THEN -q ELSE q, e |-> scale]

(***************************************************************************)
(* The depth filter of state.rs.                                           *)
(***************************************************************************)
TOP_LIMITS == 10

PRICE_SCALE == 4

Entity(price, qty) == [price |-> price, qty |-> qty]

\* the two sides exchanged
find_border_price_Swapped(last_price, depth, order_type) ==
    LET d == DecDivHundred(depth)
        percentage == IF order_type = "Ask" THEN DecSub(DecOne, d)
                                            ELSE DecAdd(DecOne, d)
    IN  DecMul(last_price, percentage)

find_border_price(last_price, depth, order_type) ==
    LET d == DecDivHundred(depth)
        percentage == IF order_type = "Ask" THEN DecAdd(DecOne, d)
                                            ELSE DecSub(DecOne, d)
    IN  DecMul(last_price, percentage)

\* an entry at the border is dropped
InBand_Strict(entry, border_price, order_type) ==
    IF order_type = "Ask" THEN DecLt(entry.price, border_price)
                          ELSE DecLt(border_price, entry.price)

InBand(entry, border_price, order_type) ==
    IF order_type = "Ask" THEN DecLe(entry.price, border_price)
                          ELSE DecGe(entry.price, border_price)

TrimEntity(entity) ==
    [entity EXCEPT !.price = normalize(trunc_with_scale(entity.price, PRICE_SCALE))]

RECURSIVE trim_order_book(_, _, _)
trim_order_book(book, border_price, order_type) ==
    IF book = <<>> THEN <<>>
    ELSE IF InBand(Head(book), border_price, order_type)
         THEN <<TrimEntity(Head(book))>>
                  \o trim_order_book(Tail(book), border_price, order_type)
         ELSE trim_order_book(Tail(book), border_price, order_type)

\* slice::sort_by with the comparator book2.qty.cmp(&book1.qty): a stable
\* sort, so an element goes behind every element whose qty is not smaller
RECURSIVE InsertByQty_Unstable(_, _)
InsertByQty_Unstable(sorted, x) ==
    IF sorted = <<>> THEN <<x>>
    ELSE IF DecLe(Head(sorted).qty, x.qty)
         THEN <<x>> \o sorted
         ELSE <<Head(sorted)>> \o InsertByQty_Unstable(Tail(sorted), x)

RECURSIVE InsertByQty(_, _)
InsertByQty(sorted, x) ==
    IF sorted = <<>> THEN <<x>>
    ELSE IF DecLt(Head(sorted).qty, x.qty)
         THEN <<x>> \o sorted
         ELSE <<Head(sorted)>> \o InsertByQty(Tail(sorted), x)

RECURSIVE SortByQtyDesc(_)
SortByQtyDesc(book) ==
    IF book = <<>> THEN <<>>
    ELSE InsertByQty(SortByQtyDesc(SubSeq(book, 1, Len(book) - 1)), book[Len(book)])

Take(s, n) == SubSeq(s, 1, IF Len(s) < n THEN Len(s) ELSE n)

sort_and_filter(book) == Take(SortByQtyDesc(book), TOP_LIMITS)

process_order_book(book, last_price, depth, order_type) ==
    LET border_price == find_border_price(last_price, depth, order_type)
        entities == trim_order_book(book, border_price, order_type)
    IN  sort_and_filter(entities)

(***************************************************************************)
(* The depth filter of order_book.rs: find_border_price and                *)
(* sort_and_filter are written as in state.rs, the map of the trim is not. *)
(***************************************************************************)
ENTITY_PRICE_SCALE == 5

TrimOrderBookEntity(entity) ==
    LET price == normalize(trunc_with_scale(entity.price, ENTITY_PRICE_SCALE))
    IN  Entity(price, DecMul(entity.qty, price))

RECURSIVE trim_order_book_entity(_, _, _)
trim_order_book_entity(book, border_price, order_type) ==
    IF book = <<>> THEN <<>>
    ELSE IF InBand(Head(book), border_price, order_type)
         THEN <<TrimOrderBookEntity(Head(book))>>
                  \o trim_order_book_entity(Tail(book), border_price, order_type)
         ELSE trim_order_book_entity(Tail(book), border_price, order_type)

process_order_book_entity(book, last_price, depth, order_type) ==
    LET border_price == find_border_price(last_price, depth, order_type)
        entities == trim_order_book_entity(book, border_price, order_type)
    IN  sort_and_filter(entities)

(***************************************************************************)
(* Inputs of the order-book path.                                          *)
(***************************************************************************)
\* concurrent get_filtered_order_book calls
NumRequests == 1

Requests == 1..NumRequests

BookSymbols == {SOLUSDT, ADAUSDT}

Depths == {Dec(10, 0)}

LastPrices == {Dec(200, 0), Dec(1005, 1)}

TestAsks ==
    << Entity(Dec(100, 0), Dec(1, 0)), Entity(Dec(150, 0), Dec(10, 0)),
       Entity(Dec(200, 0), Dec(2, 0)), Entity(Dec(250, 0), Dec(1, 0)) >>

TestBids ==
    << Entity(Dec(90, 0), Dec(10, 0)), Entity(Dec(85, 0), Dec(100, 0)),
       Entity(Dec(80, 0), Dec(2, 0)), Entity(Dec(75, 0), Dec(1, 0)) >>

FineAsks ==
    << Entity(Dec(22000001, 5), Dec(7, 0)), Entity(Dec(220, 0), Dec(5, 0)),
       Entity(Dec(20012345, 5), Dec(5, 0)), Entity(Dec(110549, 3), Dec(25, 1)) >>

FineBids ==
    << Entity(Dec(180, 0), Dec(4, 0)), Entity(Dec(17999999, 5), Dec(9, 0)),
       Entity(Dec(199123456, 6), Dec(4, 0)), Entity(Dec(90451, 3), Dec(15, 1)) >>

OrderBook(asks, bids) == [asks |-> asks, bids |-> bids]

ExchangeBooks == {OrderBook(TestAsks, TestBids), OrderBook(FineAsks, FineBids)}

(***************************************************************************)
(* Inputs of the depth filter on its own.                                  *)
(***************************************************************************)
FilterModules == {"state", "order_book"}

OrderTypes == {"Ask", "Bid"}

FilterDepths == {Dec(10, 0), Dec(25, 1), Dec(100, 0)}

FilterLastPrices == {Dec(200, 0), Dec(1005, 1)}

\* the test books and the fine-grained books, one after the other
EntityTape == TestAsks \o TestBids \o FineAsks \o FineBids

\* every contiguous run of a sequence
Windows(tape) ==
    { SubSeq(tape, i, j) : i \in 1..Len(tape), j \in 1..Len(tape) }

\* entries at and next to the borders, some of equal quantity
BorderEntries ==
    { Entity(Dec(220, 0), Dec(5, 0)), Entity(Dec(22000001, 5), Dec(7, 0)),
      Entity(Dec(180, 0), Dec(4, 0)), Entity(Dec(17999999, 5), Dec(9, 0)),
      Entity(Dec(199123456, 6), Dec(4, 0)), Entity(Dec(200, 0), Dec(5, 0)) }

FilterBooks == Windows(EntityTape) \cup SeqsUpTo(BorderEntries, MaxListLen)

NoDec == [m |-> 0, e |-> 0]
NoBook == OrderBook(<<>>, <<>>)

None == [some |-> FALSE]
Some(x) == [some |-> TRUE, val |-> x]

(***************************************************************************)
(* serde_json of an OrderBook: the structure is kept and every Decimal is  *)
(* written as its decimal string (sign, integer part, fractional digits).  *)
(***************************************************************************)
RECURSIVE Digits(_, _)
Digits(n, k) ==
    IF k = 0 THEN <<>> ELSE Append(Digits(n \div 10, k - 1), n % 10)

RECURSIVE DigitsValue(_)
DigitsValue(ds) ==
    IF ds = <<>> THEN 0
    ELSE 10 * DigitsValue(SubSeq(ds, 1, Len(ds) - 1)) + ds[Len(ds)]

DecToString(d) ==
    [neg |-> d.m < 0,
     int |-> Abs(d.m) \div Pow10(d.e),
     frac |-> Digits(Abs(d.m) % Pow10(d.e), d.e)]

DecFromStr(t) ==
    LET mag == t.int * Pow10(Len(t.frac)) + DigitsValue(t.frac)
    IN  Dec(IF t.neg THEN -mag ELSE mag, Len(t.frac))

SerEntity(x) == [price |-> DecToString(x.price), qty |-> DecToString(x.qty)]
DeEntity(t) == Entity(DecFromStr(t.price), DecFromStr(t.qty))

to_string(book) ==
    [asks |-> [i \in 1..Len(book.asks) |-> SerEntity(book.asks[i])],
     bids |-> [i \in 1..Len(book.bids) |-> SerEntity(book.bids[i])]]

\* a stored value that is not the JSON of an OrderBook: `bids` is missing
CorruptValue == [asks |-> <<>>]

IsOrderBookJson(text) == {"asks", "bids"} \subseteq DOMAIN text

from_str(text) ==
    IF IsOrderBookJson(text)
    THEN [ok |-> TRUE,
          book |-> OrderBook([i \in 1..Len(text.asks) |-> DeEntity(text.asks[i])],
                             [i \in 1..Len(text.bids) |-> DeEntity(text.bids[i])])]
    ELSE [ok |-> FALSE, book |-> NoBook]

(***************************************************************************)
(* error.rs and binance.rs: every library error becomes Internal(message). *)
(***************************************************************************)
\* a library error reported as an unknown symbol
FromError_NotFound(message) == SymbolNotFound(message)

FromError(message) == Internal(message)

\* the outcomes of one HTTP call of the exchange client (binance.rs)
HttpFailures == {"send", "json", "null"}

BinanceFailure(outcome) ==
    CASE outcome = "send" -> FromError("error sending request")
      [] outcome = "json" -> FromError("error decoding response body")
      [] outcome = "null" -> Internal("Binance returned no data")

(***************************************************************************)
(* redis.rs.                                                               *)
(***************************************************************************)
\* an expiry of two minutes
ORDER_BOOK_TTL_Long == 60 + 60

ORDER_BOOK_TTL == 60

\* ages are counted up to just past the expiry
AgeCap == ORDER_BOOK_TTL + 2

\* one key for every symbol
build_redis_key_Shared(symbol) == <<"orderbook-">>

build_redis_key(symbol) == <<"orderbook-">> \o symbol

CacheKeys == { build_redis_key(s) : s \in BookSymbols }

RedisFaults == {"none", "conn", "cmd"}

RedisFailure(fault) ==
    IF fault = "conn" THEN FromError("redis connection refused")
                      ELSE FromError("redis command failed")

RedisGetOrderBook_CorruptAsMiss(stored, fault) ==
    IF fault # "none" THEN RedisFailure(fault)
    ELSE IF stored.some /\ from_str(stored.val).ok
         THEN Ok(Some(from_str(stored.val).book))
         ELSE Ok(None)

\* Redis::get_order_book, given the store's content for the key
RedisGetOrderBook(stored, fault) ==
    IF fault # "none" THEN RedisFailure(fault)
    ELSE IF stored.some
         THEN IF from_str(stored.val).ok
              THEN Ok(Some(from_str(stored.val).book))
              ELSE FromError("serde_json: missing field")
         ELSE Ok(None)

\* Redis::add_order_book: its result
RedisAddOrderBook(fault) ==
    IF fault # "none" THEN RedisFailure(fault) ELSE Ok(<<>>)

(***************************************************************************)
(* AppState::get_order_book: what follows each await.                      *)
(***************************************************************************)
AfterCacheRead_HitIgnored(redis_ob) ==
    IF redis_ob.kind # "Ok" THEN [next |-> "return", result |-> redis_ob]
    ELSE [next |-> "fetch", result |-> NoResult]

AfterCacheRead_ErrorAsMiss(redis_ob) ==
    IF redis_ob.kind = "Ok" /\ redis_ob.value.some
    THEN [next |-> "return", result |-> Ok(redis_ob.value.val)]
    ELSE [next |-> "fetch", result |-> NoResult]

\* after self.redis.get_order_book(symbol).await? : "return" with a result,
\* or "fetch" from the exchange
AfterCacheRead(redis_ob) ==
    IF redis_ob.kind # "Ok" THEN [next |-> "return", result |-> redis_ob]
    ELSE IF redis_ob.value.some
         THEN [next |-> "return", result |-> Ok(redis_ob.value.val)]
         ELSE [next |-> "fetch", result |-> NoResult]

\* Err(e) => Err(ServiceError::from(e)) with e a ServiceError: the reflexive
\* From, the error is handed on as it is
AfterFetchError(e) == e

AfterCacheWrite_Propagate(added, book) ==
    IF added.kind # "Ok" THEN added ELSE Ok(book)

\* after self.redis.add_order_book(symbol, &book).await : the error is logged
AfterCacheWrite(added, book) == Ok(book)

\* the tail of get_filtered_order_book
ExtendedOrderBook(symbol, order_book, last_price, depth) ==
    [symbol |-> symbol,
     asks |-> process_order_book(order_book.asks, last_price, depth, "Ask"),
     bids |-> process_order_book(order_book.bids, last_price, depth, "Bid"),
     last_price |-> last_price,
     depth |-> depth]

Assemble_Partial(ob, symbol, last_price, depth) ==
    IF ob.kind # "Ok" THEN Ok(ExtendedOrderBook(symbol, NoBook, last_price, depth))
    ELSE Ok(ExtendedOrderBook(symbol, ob.value, last_price, depth))

\* `self.get_order_book(&symbol).await?` and the assembly of the result
Assemble(ob, symbol, last_price, depth) ==
    IF ob.kind # "Ok" THEN ob
    ELSE Ok(ExtendedOrderBook(symbol, ob.value, last_price, depth))

VARIABLES
    trading_pairs,   \* AppState.trading_pairs: the HashSet behind the RwLock
    lockWriter,      \* TRUE while the refresh task holds the write guard
    lockReaders,     \* the validate calls that hold a read guard
    rpc,             \* position of periodic_exchange_info_update
    rdata,           \* `data`: the filtered symbols of the current cycle
    ri,              \* index of the next element `extend` inserts
    vpc,             \* position of each validate_symbol call
    vin,             \* its argument
    vsym,            \* its local `symbol` after normalisation
    vres,            \* its return value
    committed,       \* history: the registry when the write guard was last free
    outA,            \* history: filtered output of the refresh before the last
    outB,            \* history: filtered output of the last completed refresh
    okCycles,        \* history: number of completed refreshes
    everTrading      \* history: symbols ever listed with status TRADING

regVars == <<trading_pairs, lockWriter, lockReaders, rpc, rdata, ri,
             vpc, vin, vsym, vres, committed, outA, outB, okCycles,
             everTrading>>

VARIABLES
    cache,           \* the cache store: key -> optional serialized value
    qpc,             \* position of each get_filtered_order_book call
    qsym,            \* its argument `symbol`
    qdepth,          \* its argument `depth`
    qprice,          \* its local `last_price.price`
    qbook,           \* the snapshot get_order_book holds (cached or fetched)
    qob,             \* the return value of get_order_book
    qres,            \* the return value of get_filtered_order_book
    qtrace,          \* history: the collaborator calls made, with outcome
    qerr,            \* history: the last error a collaborator returned
    lastAdded,       \* history: per symbol, the book add_order_book stored
                     \* last and that has not expired
    ttl,             \* the cache store: key -> seconds the entry has to live
    age              \* history: key -> seconds since add_order_book stored it

cacheVars == <<cache, qpc, qsym, qdepth, qprice, qbook, qob, qres, qtrace,
               qerr, lastAdded, ttl, age>>

VARIABLES
    fmod,            \* the module whose filter is applied: state or order_book
    fpc,             \* position inside the filter call
    fbook,           \* argument book
    flast_price,     \* argument last_price
    fdepth,          \* argument depth
    forder_type,     \* argument order_type
    fborder_price,   \* local border_price
    fentities,       \* local entities, the trimmed book
    fresult          \* the return value

filterVars == <<fmod, fpc, fbook, flast_price, fdepth, forder_type,
                fborder_price, fentities, fresult>>

(***************************************************************************)
(* main.rs: the dialogue of every chat, kept in InMemStorage<State>.       *)
(***************************************************************************)
VARIABLES
    dstate,          \* the State stored for each chat
    validated        \* history: per chat, the symbols validate_symbol
                     \* returned Ok for

chatVars == <<dstate, validated>>

vars == <<regVars, cacheVars, filterVars, chatVars>>

Chats == {1}

\* enum State
Start == [name |-> "Start", token |-> <<>>]
ReceiveToken == [name |-> "ReceiveToken", token |-> <<>>]
ReceiveFilters(token) == [name |-> "ReceiveFilters", token |-> token]

\* no dialogue is stored: every chat is in the default state
ChatIdle ==
    /\ dstate = [c \in Chats |-> Start]
    /\ validated = [c \in Chats |-> {}]

(***************************************************************************)
(* AppState::get_usdt_trading_pairs: filter and map of the exchange list.  *)
(***************************************************************************)
IsUsdtTrading_StatusOnly(item) == item.status = "TRADING"

IsUsdtTrading(item) ==
    item.status = "TRADING" /\ ends_with(item.symbol, USDT)

RECURSIVE get_usdt_trading_pairs(_)
get_usdt_trading_pairs(resp) ==
    IF resp = <<>> THEN <<>>
    ELSE IF IsUsdtTrading(Head(resp))
         THEN <<Head(resp).symbol>> \o get_usdt_trading_pairs(Tail(resp))
         ELSE get_usdt_trading_pairs(Tail(resp))

(***************************************************************************)
(* HashSet::insert, one element of `lock.extend(data)`.                    *)
(***************************************************************************)
HashSetInsert_Replace(set, item) == {item}

HashSetInsert(set, item) == set \cup {item}

(***************************************************************************)
(* tokio RwLock: a read guard is granted unless the writer holds the lock  *)
(* or is queued for it (the lock is write-preferring); the write guard is  *)
(* granted when no read guard is held.                                     *)
(***************************************************************************)
CanRead_Unguarded(writerHolds, writerWaits) == ~writerWaits

\* a read-preferring lock: readers are admitted past a queued writer
CanRead_ReadPreferring(writerHolds, writerWaits) == ~writerHolds

CanRead(writerHolds, writerWaits) == ~writerHolds /\ ~writerWaits

CanWrite(readers) == readers = {}

\* a normalization that appends USDT to whatever it is given
Normalize_Append(raw) == to_uppercase(raw) \o USDT

(***************************************************************************)
(* AppState::validate_symbol, the synchronous part before the lock.        *)
(***************************************************************************)
Normalize(raw) ==
    LET symbol == to_uppercase(raw)
    IN  IF ~ends_with(symbol, USDT) THEN symbol \o USDT ELSE symbol

IsException_Short(symbol) == symbol \in {BTCUSDT, ETHUSDT}

IsException(symbol) == symbol \in DEPTH_EXEPCTIONS

Lookup_AlwaysOk(exch_info, symbol) == Ok(symbol)

Lookup(exch_info, symbol) ==
    IF symbol \in exch_info THEN Ok(symbol) ELSE SymbolNotFound(symbol)

(***************************************************************************)
(* Initial state: AppState::new, no task started yet.                      *)
(***************************************************************************)
RegInit ==
    /\ trading_pairs = {}
    /\ lockWriter = FALSE
    /\ lockReaders = {}
    /\ rpc = "tick"
    /\ rdata = <<>>
    /\ ri = 1
    /\ vpc = [v \in Validators |-> "idle"]
    /\ vin = [v \in Validators |-> <<>>]
    /\ vsym = [v \in Validators |-> <<>>]
    /\ vres = [v \in Validators |-> NoResult]
    /\ committed = {}
    /\ outA = {}
    /\ outB = {}
    /\ okCycles = 0
    /\ everTrading = {}

CacheInit ==
    /\ cache = [k \in CacheKeys |-> None]
    /\ qpc = [q \in Requests |-> "idle"]
    /\ qsym = [q \in Requests |-> <<>>]
    /\ qdepth = [q \in Requests |-> NoDec]
    /\ qprice = [q \in Requests |-> NoDec]
    /\ qbook = [q \in Requests |-> NoBook]
    /\ qob = [q \in Requests |-> NoResult]
    /\ qres = [q \in Requests |-> NoResult]
    /\ qtrace = [q \in Requests |-> <<>>]
    /\ qerr = [q \in Requests |-> NoResult]
    /\ lastAdded = [s \in BookSymbols |-> None]
    /\ ttl = [k \in CacheKeys |-> 0]
    /\ age = [k \in CacheKeys |-> AgeCap]

\* no filter call on its own is in progress
FilterIdle ==
    /\ fmod = "state"
    /\ fpc = "idle"
    /\ fbook = <<>>
    /\ flast_price = NoDec
    /\ fdepth = NoDec
    /\ forder_type = "Ask"
    /\ fborder_price = NoDec
    /\ fentities = <<>>
    /\ fresult = <<>>

Init == RegInit /\ CacheInit /\ FilterIdle /\ ChatIdle

histVars == <<committed, outA, outB, okCycles>>
refreshVars == <<rpc, rdata, ri, histVars, everTrading>>
validateVars == <<vpc, vin, vsym, vres>>

(***************************************************************************)
(* periodic_exchange_info_update: one loop iteration in five steps.        *)
(***************************************************************************)
\* interval.tick().await returns
RefreshTick ==
    /\ rpc = "tick"
    /\ okCycles < MaxCycles
    /\ rpc' = "fetch"
    /\ UNCHANGED <<trading_pairs, lockWriter, lockReaders, rdata, ri, histVars, everTrading, validateVars>>
    /\ UNCHANGED <<cacheVars, filterVars, chatVars>>

\* get_usdt_trading_pairs().await returns Ok(data)
RefreshFetchOk ==
    /\ rpc = "fetch"
    /\ \E resp \in ExchangeInfoResponses :
        /\ rdata' = get_usdt_trading_pairs(resp)
        /\ everTrading' = everTrading \cup
              { resp[i].symbol : i \in { j \in DOMAIN resp : resp[j].status = "TRADING" } }
    /\ rpc' = "wait_write"
    /\ UNCHANGED <<trading_pairs, lockWriter, lockReaders, ri, histVars,
                   validateVars>>
    /\ UNCHANGED <<cacheVars, filterVars, chatVars>>

\* a failed cycle that drops the last-known registry
RefreshFetchErr_Clears ==
    /\ rpc = "fetch"
    /\ rpc' = "failed"
    /\ trading_pairs' = {}
    /\ UNCHANGED <<lockWriter, lockReaders, rdata, ri,
                   committed, outA, outB, okCycles, everTrading, validateVars>>
    /\ UNCHANGED <<cacheVars, filterVars, chatVars>>

\* get_usdt_trading_pairs().await returns Err(e)
RefreshFetchErr ==
    /\ rpc = "fetch"
    /\ rpc' = "failed"
    /\ UNCHANGED <<trading_pairs, lockWriter, lockReaders, rdata, ri,
                   committed, outA, outB, okCycles, everTrading, validateVars>>
    /\ UNCHANGED <<cacheVars, filterVars, chatVars>>

\* the Err arm: error!(...), then the next iteration
RefreshLogErr ==
    /\ rpc = "failed"
    /\ rpc' = "tick"
    /\ UNCHANGED <<trading_pairs, lockWriter, lockReaders, rdata, ri,
                   committed, outA, outB, okCycles, everTrading, validateVars>>
    /\ UNCHANGED <<cacheVars, filterVars, chatVars>>

\* state.trading_pairs.write().await returns the guard
RefreshAcquire ==
    /\ rpc = "wait_write"
    /\ CanWrite(lockReaders)
    /\ lockWriter' = TRUE
    /\ ri' = 1
    /\ rpc' = "extend"
    /\ UNCHANGED <<trading_pairs, lockReaders, rdata, histVars,
                   everTrading, validateVars>>
    /\ UNCHANGED <<cacheVars, filterVars, chatVars>>

\* lock.extend(data): one insertion
RefreshInsert ==
    /\ rpc = "extend"
    /\ ri <= Len(rdata)
    /\ trading_pairs' = HashSetInsert(trading_pairs, rdata[ri])
    /\ ri' = ri + 1
    /\ UNCHANGED <<lockWriter, lockReaders, rpc, rdata, histVars,
                   everTrading, validateVars>>
    /\ UNCHANGED <<cacheVars, filterVars, chatVars>>

\* extend is done, the guard is dropped at the end of the match arm
RefreshRelease ==
    /\ rpc = "extend"
    /\ ri > Len(rdata)
    /\ lockWriter' = FALSE
    /\ committed' = trading_pairs
    /\ outA' = outB
    /\ outB' = Range(rdata)
    /\ okCycles' = okCycles + 1
    /\ rdata' = <<>>
    /\ ri' = 1
    /\ rpc' = "tick"
    /\ UNCHANGED <<trading_pairs, lockReaders, everTrading,
                   validateVars>>
    /\ UNCHANGED <<cacheVars, filterVars, chatVars>>

(***************************************************************************)
(* AppState::validate_symbol.                                              *)
(***************************************************************************)
\* the call up to `self.trading_pairs.read().await`
ValidateCall(v) ==
    /\ vpc[v] = "idle"
    /\ \E raw \in RawInputs :
        LET symbol == Normalize(raw) IN
        /\ vin' = [vin EXCEPT ![v] = raw]
        /\ vsym' = [vsym EXCEPT ![v] = symbol]
        /\ IF IsException(symbol)
           THEN /\ vres' = [vres EXCEPT ![v] = UnsupportedSymbol(symbol)]
                /\ vpc' = [vpc EXCEPT ![v] = "done"]
           ELSE /\ vres' = [vres EXCEPT ![v] = NoResult]
                /\ vpc' = [vpc EXCEPT ![v] = "wait_read"]
    /\ UNCHANGED <<trading_pairs, lockWriter, lockReaders, refreshVars>>
    /\ UNCHANGED <<cacheVars, filterVars, chatVars>>

\* a read guard that excludes other readers, as a Mutex would
ValidateAcquire_Exclusive(v) ==
    /\ vpc[v] = "wait_read"
    /\ CanRead(lockWriter, rpc = "wait_write")
    /\ lockReaders = {}
    /\ lockReaders' = lockReaders \cup {v}
    /\ vpc' = [vpc EXCEPT ![v] = "reading"]
    /\ UNCHANGED <<trading_pairs, lockWriter, refreshVars, vin, vsym, vres>>
    /\ UNCHANGED <<cacheVars, filterVars, chatVars>>

\* read().await returns the guard
ValidateAcquire(v) ==
    /\ vpc[v] = "wait_read"
    /\ CanRead(lockWriter, rpc = "wait_write")
    /\ lockReaders' = lockReaders \cup {v}
    /\ vpc' = [vpc EXCEPT ![v] = "reading"]
    /\ UNCHANGED <<trading_pairs, lockWriter, refreshVars, vin, vsym, vres>>
    /\ UNCHANGED <<cacheVars, filterVars, chatVars>>

\* a lookup that also records the symbol it was asked for
ValidateLookup_Inserts(v) ==
    /\ vpc[v] = "reading"
    /\ vres' = [vres EXCEPT ![v] = Lookup(trading_pairs, vsym[v])]
    /\ trading_pairs' = trading_pairs \cup {vsym[v]}
    /\ lockReaders' = lockReaders \ {v}
    /\ vpc' = [vpc EXCEPT ![v] = "done"]
    /\ UNCHANGED <<lockWriter, refreshVars, vin, vsym>>
    /\ UNCHANGED <<cacheVars, filterVars, chatVars>>

\* exch_info.get(&symbol), the match, and the guard dropped on return
ValidateLookup(v) ==
    /\ vpc[v] = "reading"
    /\ vres' = [vres EXCEPT ![v] = Lookup(trading_pairs, vsym[v])]
    /\ lockReaders' = lockReaders \ {v}
    /\ vpc' = [vpc EXCEPT ![v] = "done"]
    /\ UNCHANGED <<trading_pairs, lockWriter, refreshVars, vin, vsym>>
    /\ UNCHANGED <<cacheVars, filterVars, chatVars>>

\* the caller has consumed the result
ValidateReturn(v) ==
    /\ vpc[v] = "done"
    /\ vpc' = [vpc EXCEPT ![v] = "idle"]
    /\ vin' = [vin EXCEPT ![v] = <<>>]
    /\ vsym' = [vsym EXCEPT ![v] = <<>>]
    /\ vres' = [vres EXCEPT ![v] = NoResult]
    /\ UNCHANGED <<trading_pairs, lockWriter, lockReaders, refreshVars>>
    /\ UNCHANGED <<cacheVars, filterVars, chatVars>>

Next ==
    \/ RefreshTick
    \/ RefreshFetchOk
    \/ RefreshFetchErr
    \/ RefreshLogErr
    \/ RefreshAcquire
    \/ RefreshInsert
    \/ RefreshRelease
    \/ \E v \in Validators : ValidateCall(v)
    \/ \E v \in Validators : ValidateAcquire(v)
    \/ \E v \in Validators : ValidateLookup(v)
    \/ \E v \in Validators : ValidateReturn(v)

Spec == Init /\ [][Next]_vars

(***************************************************************************)
(* AppState::get_filtered_order_book, with get_order_book inlined: one     *)
(* action per await.                                                       *)
(***************************************************************************)
\* the front-end calls get_filtered_order_book(symbol, depth)
RequestCall(q) ==
    /\ qpc[q] = "idle"
    /\ \E symbol \in BookSymbols, depth \in Depths :
        /\ qsym' = [qsym EXCEPT ![q] = symbol]
        /\ qdepth' = [qdepth EXCEPT ![q] = depth]
    /\ qpc' = [qpc EXCEPT ![q] = "price"]
    /\ UNCHANGED <<cache, lastAdded, ttl, age, qprice, qbook, qob, qres, qtrace, qerr, regVars, filterVars, chatVars>>

\* self.binance.get_last_price(&symbol).await returns Ok
PriceOk(q) ==
    /\ qpc[q] = "price"
    /\ \E price \in LastPrices : qprice' = [qprice EXCEPT ![q] = price]
    /\ qtrace' = [qtrace EXCEPT ![q] = Append(@, "get_last_price")]
    /\ qpc' = [qpc EXCEPT ![q] = "cache_get"]
    /\ UNCHANGED <<cache, lastAdded, ttl, age, qsym, qdepth, qbook, qob, qres, qerr, regVars, filterVars, chatVars>>

\* self.binance.get_last_price(&symbol).await? returns early
PriceErr(q) ==
    /\ qpc[q] = "price"
    /\ \E outcome \in HttpFailures :
        /\ qres' = [qres EXCEPT ![q] = BinanceFailure(outcome)]
        /\ qerr' = [qerr EXCEPT ![q] = BinanceFailure(outcome)]
    /\ qtrace' = [qtrace EXCEPT ![q] = Append(@, "get_last_price_failed")]
    /\ qpc' = [qpc EXCEPT ![q] = "done"]
    /\ UNCHANGED <<cache, lastAdded, ttl, age, qsym, qdepth, qprice, qbook, qob, regVars, filterVars, chatVars>>

\* self.redis.get_order_book(symbol).await and the match on its result
CacheRead(q) ==
    /\ qpc[q] = "cache_get"
    /\ \E fault \in RedisFaults :
        LET redis_ob == RedisGetOrderBook(cache[build_redis_key(qsym[q])], fault)
            after == AfterCacheRead(redis_ob)
        IN  /\ qtrace' = [qtrace EXCEPT ![q] =
                  Append(@, IF fault = "none" THEN "cache_get" ELSE "cache_get_failed")]
            /\ qerr' = [qerr EXCEPT ![q] =
                  IF fault = "none" THEN @ ELSE RedisFailure(fault)]
            /\ IF after.next = "return"
               THEN /\ qob' = [qob EXCEPT ![q] = after.result]
                    /\ qbook' = [qbook EXCEPT ![q] =
                           IF after.result.kind = "Ok" THEN after.result.value ELSE @]
                    /\ qres' = [qres EXCEPT ![q] =
                           Assemble(after.result, qsym[q], qprice[q], qdepth[q])]
                    /\ qpc' = [qpc EXCEPT ![q] = "done"]
               ELSE /\ qpc' = [qpc EXCEPT ![q] = "ob_fetch"]
                    /\ UNCHANGED <<qob, qbook, qres>>
    /\ UNCHANGED <<cache, lastAdded, ttl, age, qsym, qdepth, qprice, regVars, filterVars, chatVars>>

\* the live fetch waits while another call for the symbol is between its
\* fetch and its cache write
BookFetchOk_Exclusive(q) ==
    /\ qpc[q] = "ob_fetch"
    /\ \A p \in DOMAIN qpc \ {q} : ~(qsym[p] = qsym[q] /\ qpc[p] = "cache_set")
    /\ \E book \in ExchangeBooks : qbook' = [qbook EXCEPT ![q] = book]
    /\ qtrace' = [qtrace EXCEPT ![q] = Append(@, "get_order_book")]
    /\ qpc' = [qpc EXCEPT ![q] = "cache_set"]
    /\ UNCHANGED <<cache, lastAdded, ttl, age, qsym, qdepth, qprice, qob, qres, qerr, regVars, filterVars, chatVars>>

\* self.binance.get_order_book(&symbol).await returns Ok(book)
BookFetchOk(q) ==
    /\ qpc[q] = "ob_fetch"
    /\ \E book \in ExchangeBooks : qbook' = [qbook EXCEPT ![q] = book]
    /\ qtrace' = [qtrace EXCEPT ![q] = Append(@, "get_order_book")]
    /\ qpc' = [qpc EXCEPT ![q] = "cache_set"]
    /\ UNCHANGED <<cache, lastAdded, ttl, age, qsym, qdepth, qprice, qob, qres, qerr, regVars, filterVars, chatVars>>

\* self.binance.get_order_book(&symbol).await returns Err(e)
BookFetchErr(q) ==
    /\ qpc[q] = "ob_fetch"
    /\ \E outcome \in HttpFailures :
        /\ qerr' = [qerr EXCEPT ![q] = BinanceFailure(outcome)]
        /\ qob' = [qob EXCEPT ![q] = AfterFetchError(BinanceFailure(outcome))]
        /\ qres' = [qres EXCEPT ![q] =
              Assemble(AfterFetchError(BinanceFailure(outcome)),
                       qsym[q], qprice[q], qdepth[q])]
    /\ qtrace' = [qtrace EXCEPT ![q] = Append(@, "get_order_book_failed")]
    /\ qpc' = [qpc EXCEPT ![q] = "done"]
    /\ UNCHANGED <<cache, lastAdded, ttl, age, qsym, qdepth, qprice, qbook, regVars, filterVars, chatVars>>

\* the value set_ex stores under the key
StoredValue(book) == Some(to_string(book))

\* self.redis.add_order_book(symbol, &book).await, then Ok(book) and the
\* synchronous rest of get_filtered_order_book
CacheWrite(q) ==
    /\ qpc[q] = "cache_set"
    /\ \E fault \in RedisFaults :
        LET added == RedisAddOrderBook(fault)
            ob == AfterCacheWrite(added, qbook[q])
        IN  /\ cache' = IF fault = "none"
                        THEN [cache EXCEPT ![build_redis_key(qsym[q])] =
                                  StoredValue(qbook[q])]
                        ELSE cache
            /\ lastAdded' = IF fault = "none"
                            THEN [lastAdded EXCEPT ![qsym[q]] = Some(qbook[q])]
                            ELSE lastAdded
            /\ ttl' = IF fault = "none"
                      THEN [ttl EXCEPT ![build_redis_key(qsym[q])] = ORDER_BOOK_TTL]
                      ELSE ttl
            /\ age' = IF fault = "none"
                      THEN [age EXCEPT ![build_redis_key(qsym[q])] = 0]
                      ELSE age
            /\ qob' = [qob EXCEPT ![q] = ob]
            /\ qres' = [qres EXCEPT ![q] =
                  Assemble(ob, qsym[q], qprice[q], qdepth[q])]
            /\ qtrace' = [qtrace EXCEPT ![q] =
                  Append(@, IF fault = "none" THEN "cache_set" ELSE "cache_set_failed")]
            /\ qerr' = [qerr EXCEPT ![q] =
                  IF fault = "none" THEN @ ELSE RedisFailure(fault)]
    /\ qpc' = [qpc EXCEPT ![q] = "done"]
    /\ UNCHANGED <<qsym, qdepth, qprice, qbook, regVars, filterVars, chatVars>>

\* the front-end has consumed the result
RequestReturn(q) ==
    /\ qpc[q] = "done"
    /\ qpc' = [qpc EXCEPT ![q] = "idle"]
    /\ qsym' = [qsym EXCEPT ![q] = <<>>]
    /\ qdepth' = [qdepth EXCEPT ![q] = NoDec]
    /\ qprice' = [qprice EXCEPT ![q] = NoDec]
    /\ qbook' = [qbook EXCEPT ![q] = NoBook]
    /\ qob' = [qob EXCEPT ![q] = NoResult]
    /\ qres' = [qres EXCEPT ![q] = NoResult]
    /\ qtrace' = [qtrace EXCEPT ![q] = <<>>]
    /\ qerr' = [qerr EXCEPT ![q] = NoResult]
    /\ UNCHANGED <<cache, lastAdded, ttl, age, regVars, filterVars, chatVars>>

(***************************************************************************)
(* The cache store on its own: an entry expires (set_ex), or holds a value *)
(* that is not a serialized OrderBook.                                     *)
(***************************************************************************)
\* enough time passes for the entry under k to expire
CacheExpire(k) ==
    /\ cache[k].some
    /\ cache' = [cache EXCEPT ![k] = None]
    /\ lastAdded' = [s \in BookSymbols |->
                        IF build_redis_key(s) = k THEN None ELSE lastAdded[s]]
    /\ ttl' = [ttl EXCEPT ![k] = 0]
    /\ age' = [age EXCEPT ![k] = AgeCap]
    /\ UNCHANGED <<qpc, qsym, qdepth, qprice, qbook, qob, qres, qtrace, qerr,
                   regVars, filterVars, chatVars>>

CacheCorrupt(k) ==
    /\ cache[k] # Some(CorruptValue)
    /\ cache' = [cache EXCEPT ![k] = Some(CorruptValue)]
    /\ UNCHANGED <<lastAdded, ttl, age, qpc, qsym, qdepth, qprice, qbook, qob, qres, qtrace, qerr,
                   regVars, filterVars, chatVars>>

CacheNext ==
    \/ \E q \in Requests : RequestCall(q)
    \/ \E q \in Requests : PriceOk(q)
    \/ \E q \in Requests : PriceErr(q)
    \/ \E q \in Requests : CacheRead(q)
    \/ \E q \in Requests : BookFetchOk(q)
    \/ \E q \in Requests : BookFetchErr(q)
    \/ \E q \in Requests : CacheWrite(q)
    \/ \E q \in Requests : RequestReturn(q)
    \/ \E k \in CacheKeys : CacheExpire(k)
    \/ \E k \in CacheKeys : CacheCorrupt(k)

CacheSpec == Init /\ [][CacheNext]_vars

(***************************************************************************)
(* Two get_filtered_order_book calls in flight at once: the teloxide       *)
(* dispatcher runs the handlers of different chats concurrently on one     *)
(* Arc<AppState>. The actions are those of CacheSpec.                      *)
(***************************************************************************)
Racers == {1, 2}

RaceInit ==
    /\ RegInit
    /\ FilterIdle
    /\ ChatIdle
    /\ cache = [k \in CacheKeys |-> None]
    /\ qpc = [q \in Racers |-> "idle"]
    /\ qsym = [q \in Racers |-> <<>>]
    /\ qdepth = [q \in Racers |-> NoDec]
    /\ qprice = [q \in Racers |-> NoDec]
    /\ qbook = [q \in Racers |-> NoBook]
    /\ qob = [q \in Racers |-> NoResult]
    /\ qres = [q \in Racers |-> NoResult]
    /\ qtrace = [q \in Racers |-> <<>>]
    /\ qerr = [q \in Racers |-> NoResult]
    /\ lastAdded = [s \in BookSymbols |-> None]
    /\ ttl = [k \in CacheKeys |-> 0]
    /\ age = [k \in CacheKeys |-> AgeCap]

RaceNext ==
    \/ \E q \in Racers : RequestCall(q)
    \/ \E q \in Racers : PriceOk(q)
    \/ \E q \in Racers : PriceErr(q)
    \/ \E q \in Racers : CacheRead(q)
    \/ \E q \in Racers : BookFetchOk(q)
    \/ \E q \in Racers : BookFetchErr(q)
    \/ \E q \in Racers : CacheWrite(q)
    \/ \E q \in Racers : RequestReturn(q)
    \/ \E k \in CacheKeys : CacheExpire(k)
    \/ \E k \in CacheKeys : CacheCorrupt(k)

RaceSpec == RaceInit /\ [][RaceNext]_vars

(***************************************************************************)
(* One get_filtered_order_book call at a time, with the seconds that pass  *)
(* between its steps. The store drops an entry when its time to live is    *)
(* used up; GET leaves the time to live alone and SETEX sets it anew.      *)
(***************************************************************************)
Callers == {1}

\* the seconds that pass in one go: just short of a minute, a minute, more
TimeSteps == {59, 60, 61}

TimePasses(d) ==
    /\ ttl' = [k \in CacheKeys |-> Max(ttl[k] - d, 0)]
    /\ age' = [k \in CacheKeys |->
                  IF age[k] + d > AgeCap THEN AgeCap ELSE age[k] + d]
    /\ cache' = [k \in CacheKeys |->
                  IF ttl[k] > 0 /\ ttl[k] <= d THEN None ELSE cache[k]]
    /\ lastAdded' = [s \in BookSymbols |->
                        IF ttl[build_redis_key(s)] > 0 /\ ttl[build_redis_key(s)] <= d
                        THEN None ELSE lastAdded[s]]
    /\ UNCHANGED <<qpc, qsym, qdepth, qprice, qbook, qob, qres, qtrace, qerr,
                   regVars, filterVars, chatVars>>

TtlInit ==
    /\ RegInit
    /\ FilterIdle
    /\ ChatIdle
    /\ cache = [k \in CacheKeys |-> None]
    /\ qpc = [q \in Callers |-> "idle"]
    /\ qsym = [q \in Callers |-> <<>>]
    /\ qdepth = [q \in Callers |-> NoDec]
    /\ qprice = [q \in Callers |-> NoDec]
    /\ qbook = [q \in Callers |-> NoBook]
    /\ qob = [q \in Callers |-> NoResult]
    /\ qres = [q \in Callers |-> NoResult]
    /\ qtrace = [q \in Callers |-> <<>>]
    /\ qerr = [q \in Callers |-> NoResult]
    /\ lastAdded = [s \in BookSymbols |-> None]
    /\ ttl = [k \in CacheKeys |-> 0]
    /\ age = [k \in CacheKeys |-> AgeCap]

TtlNext ==
    \/ \E q \in Callers : RequestCall(q)
    \/ \E q \in Callers : PriceOk(q)
    \/ \E q \in Callers : PriceErr(q)
    \/ \E q \in Callers : CacheRead(q)
    \/ \E q \in Callers : BookFetchOk(q)
    \/ \E q \in Callers : BookFetchErr(q)
    \/ \E q \in Callers : CacheWrite(q)
    \/ \E q \in Callers : RequestReturn(q)
    \/ \E d \in TimeSteps : TimePasses(d)

TtlSpec == TtlInit /\ [][TtlNext]_vars

(***************************************************************************)
(* main.rs: the handlers of schema(). The updates of one chat are handled  *)
(* one after the other; a handler that calls into AppState goes on with    *)
(* the steps of validate_symbol or get_filtered_order_book and ends with   *)
(* the step that reads their result. `authorize` and every send_message    *)
(* either succeed or fail.                                                 *)
(***************************************************************************)
\* the data of a callback query: a depth button, a bare sign, other text,
\* or none
CallbackData ==
    { Some(<<"1", "0", "%">>), Some(<<"%">>), Some(<<"x", "y">>), None }

\* perform: depth.pop(), then depth.parse::<Decimal>()
parse_depth(data) ==
    LET digits == <<"0", "1", "2", "3", "4", "5", "6", "7", "8", "9">>
        popped == IF data = <<>> THEN data ELSE SubSeq(data, 1, Len(data) - 1)
        IsDigit(ch) == \E i \in DOMAIN digits : digits[i] = ch
        DigitOf(ch) == (CHOOSE i \in DOMAIN digits : digits[i] = ch) - 1
    IN  IF popped # <<>> /\ \A i \in DOMAIN popped : IsDigit(popped[i])
        THEN Ok(Dec(DigitsValue([i \in DOMAIN popped |-> DigitOf(popped[i])]), 0))
        ELSE [kind |-> "Err", value |-> popped]

\* a handler of the chat is running
Busy(c) == vpc[c] # "idle" \/ qpc[c] # "idle"

\* any message in State::Start, the command /start included
start(c) ==
    /\ ~Busy(c)
    /\ dstate[c] = Start
    /\ \E authorized \in BOOLEAN, sent \in BOOLEAN :
        dstate' = [dstate EXCEPT ![c] =
                      IF authorized /\ sent THEN ReceiveToken ELSE Start]
    /\ UNCHANGED <<validated, regVars, cacheVars, filterVars>>

\* the command /help, in any state
help(c) ==
    /\ ~Busy(c)
    /\ UNCHANGED vars

\* the command /cancel, in any state: dialogue.exit() after the message
cancel(c) ==
    /\ ~Busy(c)
    /\ \E sent \in BOOLEAN :
        dstate' = [dstate EXCEPT ![c] = IF sent THEN Start ELSE @]
    /\ UNCHANGED <<validated, regVars, cacheVars, filterVars>>

\* a message in State::ReceiveFilters
invalid_state(c) ==
    /\ ~Busy(c)
    /\ dstate[c].name = "ReceiveFilters"
    /\ UNCHANGED vars

\* a text message in State::ReceiveToken: up to validate_symbol's read()
receive_token(c) ==
    /\ ~Busy(c)
    /\ dstate[c] = ReceiveToken
    /\ ValidateCall(c)

\* a handler that enters ReceiveFilters whatever validate_symbol returned
receive_token_match_Unchecked(c) ==
    /\ vpc[c] = "done"
    /\ dstate' = [dstate EXCEPT ![c] = ReceiveFilters(vsym[c])]
    /\ validated' = [validated EXCEPT ![c] =
                        IF vres[c].kind = "Ok" THEN @ \cup {vres[c].value} ELSE @]
    /\ vpc' = [vpc EXCEPT ![c] = "idle"]
    /\ vin' = [vin EXCEPT ![c] = <<>>]
    /\ vsym' = [vsym EXCEPT ![c] = <<>>]
    /\ vres' = [vres EXCEPT ![c] = NoResult]
    /\ UNCHANGED <<trading_pairs, lockWriter, lockReaders, refreshVars,
                   cacheVars, filterVars>>

\* receive_token: the match on validate_symbol's result
receive_token_match(c) ==
    /\ vpc[c] = "done"
    /\ \E sent \in BOOLEAN :
        dstate' = [dstate EXCEPT ![c] =
                      IF vres[c].kind = "Ok" /\ sent
                      THEN ReceiveFilters(vres[c].value)
                      ELSE ReceiveToken]
    /\ validated' = [validated EXCEPT ![c] =
                        IF vres[c].kind = "Ok" THEN @ \cup {vres[c].value} ELSE @]
    /\ vpc' = [vpc EXCEPT ![c] = "idle"]
    /\ vin' = [vin EXCEPT ![c] = <<>>]
    /\ vsym' = [vsym EXCEPT ![c] = <<>>]
    /\ vres' = [vres EXCEPT ![c] = NoResult]
    /\ UNCHANGED <<trading_pairs, lockWriter, lockReaders, refreshVars,
                   cacheVars, filterVars>>

\* a callback query in State::ReceiveFilters { token }: up to the first
\* await of get_filtered_order_book(token, depth), or the refusal
perform(c) ==
    /\ ~Busy(c)
    /\ dstate[c].name = "ReceiveFilters"
    /\ \E data \in CallbackData :
        LET parsed_query == IF data.some THEN Some(parse_depth(data.val)) ELSE None
        IN  IF parsed_query.some /\ parsed_query.val.kind = "Ok"
            THEN /\ qsym' = [qsym EXCEPT ![c] = dstate[c].token]
                 /\ qdepth' = [qdepth EXCEPT ![c] = parsed_query.val.value]
                 /\ qpc' = [qpc EXCEPT ![c] = "price"]
            ELSE UNCHANGED <<qsym, qdepth, qpc>>
    /\ UNCHANGED <<cache, lastAdded, ttl, age, qprice, qbook, qob, qres, qtrace,
                   qerr, regVars, filterVars, chatVars>>

\* perform: the message with the order book or the apology, then
\* dialogue.update(State::ReceiveToken)
perform_reply(c) ==
    /\ qpc[c] = "done"
    /\ \E sent \in BOOLEAN :
        dstate' = [dstate EXCEPT ![c] = IF sent THEN ReceiveToken ELSE @]
    /\ qpc' = [qpc EXCEPT ![c] = "idle"]
    /\ qsym' = [qsym EXCEPT ![c] = <<>>]
    /\ qdepth' = [qdepth EXCEPT ![c] = NoDec]
    /\ qprice' = [qprice EXCEPT ![c] = NoDec]
    /\ qbook' = [qbook EXCEPT ![c] = NoBook]
    /\ qob' = [qob EXCEPT ![c] = NoResult]
    /\ qres' = [qres EXCEPT ![c] = NoResult]
    /\ qtrace' = [qtrace EXCEPT ![c] = <<>>]
    /\ qerr' = [qerr EXCEPT ![c] = NoResult]
    /\ UNCHANGED <<cache, lastAdded, ttl, age, validated, regVars, filterVars>>

DialogueInit ==
    /\ FilterIdle
    /\ ChatIdle
    /\ trading_pairs = {}
    /\ lockWriter = FALSE
    /\ lockReaders = {}
    /\ rpc = "tick"
    /\ rdata = <<>>
    /\ ri = 1
    /\ vpc = [c \in Chats |-> "idle"]
    /\ vin = [c \in Chats |-> <<>>]
    /\ vsym = [c \in Chats |-> <<>>]
    /\ vres = [c \in Chats |-> NoResult]
    /\ committed = {}
    /\ outA = {}
    /\ outB = {}
    /\ okCycles = 0
    /\ everTrading = {}
    /\ cache = [k \in CacheKeys |-> None]
    /\ qpc = [c \in Chats |-> "idle"]
    /\ qsym = [c \in Chats |-> <<>>]
    /\ qdepth = [c \in Chats |-> NoDec]
    /\ qprice = [c \in Chats |-> NoDec]
    /\ qbook = [c \in Chats |-> NoBook]
    /\ qob = [c \in Chats |-> NoResult]
    /\ qres = [c \in Chats |-> NoResult]
    /\ qtrace = [c \in Chats |-> <<>>]
    /\ qerr = [c \in Chats |-> NoResult]
    /\ lastAdded = [s \in BookSymbols |-> None]
    /\ ttl = [k \in CacheKeys |-> 0]
    /\ age = [k \in CacheKeys |-> AgeCap]

DialogueNext ==
    \/ RefreshTick
    \/ RefreshFetchOk
    \/ RefreshFetchErr
    \/ RefreshLogErr
    \/ RefreshAcquire
    \/ RefreshInsert
    \/ RefreshRelease
    \/ \E c \in Chats : start(c)
    \/ \E c \in Chats : help(c)
    \/ \E c \in Chats : cancel(c)
    \/ \E c \in Chats : invalid_state(c)
    \/ \E c \in Chats : receive_token(c)
    \/ \E c \in Chats : ValidateAcquire(c)
    \/ \E c \in Chats : ValidateLookup(c)
    \/ \E c \in Chats : receive_token_match(c)
    \/ \E c \in Chats : perform(c)
    \/ \E c \in Chats : PriceOk(c)
    \/ \E c \in Chats : PriceErr(c)
    \/ \E c \in Chats : CacheRead(c)
    \/ \E c \in Chats : BookFetchOk(c)
    \/ \E c \in Chats : BookFetchErr(c)
    \/ \E c \in Chats : CacheWrite(c)
    \/ \E c \in Chats : perform_reply(c)

DialogueSpec == DialogueInit /\ [][DialogueNext]_vars

(***************************************************************************)
(* process_order_book (state.rs) and process_order_book_entity             *)
(* (order_book.rs) on their own: the call with its arguments, then one     *)
(* action per statement.                                                   *)
(***************************************************************************)
FilterInit ==
    /\ RegInit
    /\ CacheInit
    /\ ChatIdle
    /\ fmod \in FilterModules
    /\ fpc = "call"
    /\ fbook \in FilterBooks
    /\ flast_price \in FilterLastPrices
    /\ fdepth \in FilterDepths
    /\ forder_type \in OrderTypes
    /\ fborder_price = NoDec
    /\ fentities = <<>>
    /\ fresult = <<>>

filterArgs == <<fmod, fbook, flast_price, fdepth, forder_type>>

\* let border_price = find_border_price(last_price, depth, order_type)
FindBorderPrice ==
    /\ fpc = "call"
    /\ fborder_price' = find_border_price(flast_price, fdepth, forder_type)
    /\ fpc' = "border"
    /\ UNCHANGED <<filterArgs, fentities, fresult, regVars, cacheVars, chatVars>>

\* let entities = trim_order_book(book, border_price, order_type), or
\* trim_order_book_entity in order_book.rs
TrimOrderBook ==
    /\ fpc = "border"
    /\ fentities' = IF fmod = "state"
                    THEN trim_order_book(fbook, fborder_price, forder_type)
                    ELSE trim_order_book_entity(fbook, fborder_price, forder_type)
    /\ fpc' = "trimmed"
    /\ UNCHANGED <<filterArgs, fborder_price, fresult, regVars, cacheVars, chatVars>>

\* sort_and_filter(entities), the value of the call
SortAndFilter ==
    /\ fpc = "trimmed"
    /\ fresult' = sort_and_filter(fentities)
    /\ fpc' = "done"
    /\ UNCHANGED <<filterArgs, fborder_price, fentities, regVars, cacheVars, chatVars>>

FilterNext ==
    \/ FindBorderPrice
    \/ TrimOrderBook
    \/ SortAndFilter

FilterSpec == FilterInit /\ [][FilterNext]_vars

(***************************************************************************)
(* Properties of the symbol registry.                                      *)
(***************************************************************************)
Denylisted == {BTCUSDT, ETHUSDT, WBTCUSDT, WETHUSDT}

\* C1: no step removes a symbol from the registry, and once a refresh has
\* completed the registry contains the filtered outputs of the last two
\* completed refreshes (A then B).
C1_RegistryMonotone ==
    [][ /\ trading_pairs \subseteq trading_pairs'
        /\ (outA' \cup outB') \subseteq trading_pairs' ]_vars

C1_Witness ==
    /\ okCycles = 2
    /\ outA = {SOLUSDT}
    /\ outB = {BTCUSDT}
    /\ trading_pairs = {SOLUSDT, BTCUSDT}
    /\ \E v \in Validators : vres[v] = Ok(SOLUSDT)

\* C2: whenever a validate call holds the read guard (the only place where
\* it looks the symbol up), the registry is the set before the union of the
\* current refresh or the set after the whole union, never in between.
C2_NoPartialRefresh ==
    \A v \in Validators :
        vpc[v] = "reading" =>
            trading_pairs \in {committed, committed \cup Range(rdata)}

C2_Witness ==
    \E v \in Validators :
        /\ vpc[v] = "reading"
        /\ rpc = "wait_write"
        /\ Len(rdata) = 2
        /\ rdata[1] # rdata[2]
        /\ Range(rdata) \cap trading_pairs = {}

\* C8: a finished validate call whose input normalizes to a denylisted
\* symbol has failed with UnsupportedSymbol of that symbol, whatever the
\* registry holds.
C8_DenylistRejected ==
    \A v \in Validators :
        (vpc[v] = "done" /\ Normalize(vin[v]) \in Denylisted) =>
            vres[v] = UnsupportedSymbol(Normalize(vin[v]))

C8_Witness ==
    \E v \in Validators :
        /\ vpc[v] = "done"
        /\ vin[v] = <<"b","t","c">>
        /\ vres[v] = UnsupportedSymbol(BTCUSDT)
        /\ BTCUSDT \in trading_pairs

\* the step that looks the symbol up and returns
C9_LookupStep ==
    \A v \in Validators :
        (vpc[v] = "reading" /\ vpc'[v] = "done") =>
            LET n == Normalize(vin[v]) IN
            /\ n \notin Denylisted
            /\ n \in trading_pairs => vres'[v] = Ok(n)
            /\ n \notin trading_pairs => vres'[v] = SymbolNotFound(n)

\* the error kinds a finished validate call can carry
C9_Kinds ==
    \A v \in Validators :
        vpc[v] = "done" =>
            /\ vres[v].kind \in {"Ok", "SymbolNotFound", "UnsupportedSymbol"}
            /\ Normalize(vin[v]) \notin Denylisted =>
                    vres[v].kind \in {"Ok", "SymbolNotFound"}

\* C9: for an input whose normalized form is not denylisted, the lookup
\* step returns Ok(normalized) iff the normalized symbol is in the registry
\* at that step and SymbolNotFound(normalized) otherwise; no validate call
\* ends with another error kind.
C9_ValidateLookup == [][C9_LookupStep]_vars /\ []C9_Kinds

C9_Witness ==
    \E v \in Validators :
        /\ vpc[v] = "done"
        /\ vin[v] = <<"S","o","l","U","s","d","t">>
        /\ vres[v] = Ok(SOLUSDT)
        /\ trading_pairs = {SOLUSDT}

\* C10: every registry element ends with USDT and was listed with status
\* TRADING by a successful exchange-info call, and between refresh cycles
\* the registry holds every symbol so listed that ends with USDT.
C10_OnlyUsdtTrading ==
    /\ \A s \in trading_pairs : ends_with(s, USDT) /\ s \in everTrading
    /\ rpc = "tick" =>
          { s \in everTrading : ends_with(s, USDT) } \subseteq trading_pairs

C10_Witness ==
    /\ rpc = "tick"
    /\ okCycles = 1
    /\ SOLBTC \in everTrading
    /\ trading_pairs = {SOLUSDT}

(***************************************************************************)
(* Properties of the cache-aside order book path (CacheSpec).              *)
(***************************************************************************)
Last(s) == s[Len(s)]

Has(s, x) == \E i \in DOMAIN s : s[i] = x

ExchangeBookCalls == {"get_order_book", "get_order_book_failed"}
CacheWriteCalls == {"cache_set", "cache_set_failed"}
PriceCalls == {"get_last_price", "get_last_price_failed"}

Key(q) == build_redis_key(qsym[q])

\* the cache read of a call whose key holds a corrupt value
C3_CorruptStep ==
    \A q \in Requests :
        (qpc[q] = "cache_get" /\ qpc'[q] # "cache_get"
           /\ cache[Key(q)].some /\ cache[Key(q)].val = CorruptValue) =>
            /\ qpc'[q] = "done"
            /\ qob'[q].kind = "Internal"
            /\ qres'[q].kind = "Internal"
            /\ \A i \in DOMAIN qtrace'[q] :
                  qtrace'[q][i] \notin ExchangeBookCalls \cup CacheWriteCalls
            /\ cache' = cache

\* C3: a cache read that finds a value that is no serialized OrderBook ends
\* the call with an Internal error; no order-book fetch and no cache write
\* follow, and the store is left as it is.
C3_CorruptCacheFails == [][C3_CorruptStep]_vars

C3_Witness ==
    \E q \in Requests :
        /\ qpc[q] = "done"
        /\ qtrace[q] = <<"get_last_price", "cache_get">>
        /\ qob[q] = Internal("serde_json: missing field")
        /\ cache[Key(q)] = Some(CorruptValue)

\* C4: a finished call whose live order-book fetch succeeded has Ok of
\* exactly the fetched snapshot as the result of get_order_book, whether the
\* cache write that followed succeeded or failed.
C4_WriteFailureSwallowed ==
    \A q \in Requests :
        (qpc[q] = "done" /\ Has(qtrace[q], "get_order_book")) =>
            /\ Last(qtrace[q]) \in CacheWriteCalls
            /\ qob[q].kind = "Ok"
            /\ qob[q].value = qbook[q]
            /\ qbook[q] \in ExchangeBooks
            /\ qres[q].kind = "Ok"

C4_Witness ==
    \E q \in Requests :
        /\ qpc[q] = "done"
        /\ qtrace[q] = <<"get_last_price", "cache_get", "get_order_book",
                         "cache_set_failed">>
        /\ qob[q].kind = "Ok"
        /\ qob[q].value = OrderBook(FineAsks, FineBids)
        /\ qerr[q].kind = "Internal"

\* the order of the collaborator calls of one request
C5_TraceOrder ==
    \A q \in Requests :
        /\ Len(qtrace[q]) >= 2 => qtrace[q][2] \in {"cache_get", "cache_get_failed"}
        /\ \A i \in DOMAIN qtrace[q] :
            /\ qtrace[q][i] \in ExchangeBookCalls =>
                  i = 3 /\ qtrace[q][2] = "cache_get"
            /\ qtrace[q][i] \in CacheWriteCalls =>
                  i = 4 /\ qtrace[q][3] = "get_order_book"

\* the cache read and the cache write of one request
C5_Step ==
    \A q \in Requests :
        /\ (qpc[q] = "cache_get" /\ qpc'[q] # "cache_get"
               /\ \E b \in ExchangeBooks : cache[Key(q)] = Some(to_string(b))) =>
              /\ qpc'[q] = "done"
              /\ cache' = cache
              /\ Len(qtrace'[q]) = 2
              /\ qob'[q].kind = "Ok" =>
                    cache[Key(q)] = Some(to_string(qob'[q].value))
              /\ qob'[q].kind # "Ok" => Last(qtrace'[q]) = "cache_get_failed"
        /\ (qpc[q] = "cache_get" /\ qpc'[q] = "ob_fetch") => ~cache[Key(q)].some
        /\ (qpc[q] = "cache_set" /\ qpc'[q] # "cache_set") =>
              /\ Has(qtrace[q], "get_order_book")
              /\ qob'[q].kind = "Ok"
              /\ \/ cache' = cache /\ Last(qtrace'[q]) = "cache_set_failed"
                 \/ /\ Last(qtrace'[q]) = "cache_set"
                    /\ cache' = [cache EXCEPT ![Key(q)] =
                                     Some(to_string(qob'[q].value))]

\* a snapshot enters the store only by the cache write of a request
C5_WritesOnlyAfterFetch ==
    \A k \in CacheKeys :
        (cache'[k] # cache[k] /\ cache'[k].some /\ cache'[k].val # CorruptValue) =>
            \E q \in Requests :
                /\ qpc[q] = "cache_set" /\ qpc'[q] = "done"
                /\ Key(q) = k

\* C5: the cache read is the first call of get_order_book; a read that finds
\* a serialized snapshot returns it (or the store's error) with no exchange
\* call and no cache write; the exchange is asked only when the store holds
\* no value; the cache is written only right after a successful fetch, with
\* the snapshot that is returned.
C5_CacheAside ==
    []C5_TraceOrder /\ [][C5_Step /\ C5_WritesOnlyAfterFetch]_vars

C5_Witness ==
    \E q \in Requests :
        /\ qpc[q] = "done"
        /\ qtrace[q] = <<"get_last_price", "cache_get">>
        /\ qob[q].kind = "Ok"
        /\ qob[q].value = OrderBook(TestAsks, TestBids)
        /\ cache[Key(q)] = Some(to_string(OrderBook(TestAsks, TestBids)))

\* C6: in a finished call, a failed cache-store read is the last call made
\* and get_order_book fails with the store's error; a failed exchange fetch
\* is the last call made and get_order_book fails with the exchange's
\* error; get_order_book is Ok only if no call but the cache write failed.
C6_FailuresPropagate ==
    \A q \in Requests :
        qpc[q] = "done" =>
            /\ Has(qtrace[q], "cache_get_failed") =>
                  /\ Last(qtrace[q]) = "cache_get_failed"
                  /\ qob[q].kind = "Internal"
                  /\ qob[q] = qerr[q]
            /\ Has(qtrace[q], "get_order_book_failed") =>
                  /\ Last(qtrace[q]) = "get_order_book_failed"
                  /\ qob[q].kind = "Internal"
                  /\ qob[q] = qerr[q]
            /\ qob[q].kind = "Ok" =>
                  \A i \in DOMAIN qtrace[q] :
                      qtrace[q][i] \in {"get_last_price", "cache_get",
                                        "get_order_book", "cache_set",
                                        "cache_set_failed"}

C6_Witness ==
    \E q \in Requests :
        /\ qpc[q] = "done"
        /\ qtrace[q] = <<"get_last_price", "cache_get", "get_order_book_failed">>
        /\ qob[q] = Internal("Binance returned no data")
        /\ ~cache[Key(q)].some

\* C7: the price fetch is the first call of every get_filtered_order_book
\* and nothing follows a failed one; a finished call is an error iff the
\* price fetch or get_order_book failed, and otherwise carries the price of
\* this call and the filter of this call's order book on each side.
C7_PriceFirstNoPartial ==
    \A q \in Requests :
        /\ qtrace[q] # <<>> => qtrace[q][1] \in PriceCalls
        /\ \A i \in DOMAIN qtrace[q] : qtrace[q][i] \in PriceCalls => i = 1
        /\ Has(qtrace[q], "get_last_price_failed") => Len(qtrace[q]) = 1
        /\ qpc[q] = "done" =>
            /\ qtrace[q] # <<>>
            /\ qres[q].kind \in {"Ok", "Internal"}
            /\ qres[q].kind = "Ok" <=>
                  (qtrace[q][1] = "get_last_price" /\ qob[q].kind = "Ok")
            /\ qres[q].kind = "Ok" =>
                  /\ qprice[q] \in LastPrices
                  /\ qres[q].value.last_price = qprice[q]
                  /\ qres[q].value.symbol = qsym[q]
                  /\ qres[q].value.depth = qdepth[q]
                  /\ qres[q].value.asks =
                        process_order_book(qob[q].value.asks, qprice[q], qdepth[q], "Ask")
                  /\ qres[q].value.bids =
                        process_order_book(qob[q].value.bids, qprice[q], qdepth[q], "Bid")
            /\ qres[q].kind # "Ok" =>
                  /\ qres[q] = qerr[q] \/ qres[q] = qob[q]
                  /\ qtrace[q][1] = "get_last_price_failed" => qres[q] = qerr[q]

C7_Witness ==
    \E q \in Requests :
        /\ qpc[q] = "done"
        /\ qres[q].kind = "Ok"
        /\ qres[q].value.last_price = Dec(200, 0)
        /\ qres[q].value.asks =
              << Entity(Dec(150, 0), Dec(10, 0)), Entity(Dec(200, 0), Dec(2, 0)),
                 Entity(Dec(100, 0), Dec(1, 0)) >>
        /\ qres[q].value.bids = <<>>

(***************************************************************************)
(* Registry refresh, the Err arm of periodic_exchange_info_update.         *)
(***************************************************************************)
\* a step of the refresh task in a cycle whose exchange-info call failed
C11_FailedStep ==
    \/ rpc = "fetch" /\ rpc' = "failed"
    \/ rpc = "failed" /\ rpc' = "tick"

\* what validate would answer for every input against a registry content
C11_Answers(pairs) == [raw \in RawInputs |-> Lookup(pairs, Normalize(raw))]

\* C11: a refresh cycle whose exchange-info call fails leaves the registry,
\* its lock and every validate call in progress as they were, and validate
\* answers every input as it would have had the cycle not run.
C11_FailedCycleInvisible ==
    [][C11_FailedStep =>
          /\ trading_pairs' = trading_pairs
          /\ lockWriter' = lockWriter
          /\ lockReaders' = lockReaders
          /\ validateVars' = validateVars
          /\ C11_Answers(trading_pairs') = C11_Answers(trading_pairs)]_vars

\* the exchange-info call has just failed while the registry held symbols,
\* and a validate call has found one of them
C11_Witness ==
    /\ okCycles >= 1
    /\ rpc = "failed"
    /\ trading_pairs # {}
    /\ \E v \in Validators : vpc[v] = "done" /\ vres[v].kind = "Ok"

(***************************************************************************)
(* The depth filter, under FilterSpec.                                     *)
(***************************************************************************)
\* the sign of a - b, on the mantissas at a common scale
Cmp(a, b) ==
    LET e == IF a.e >= b.e THEN a.e ELSE b.e
    IN  a.m * Pow10(e - a.e) - b.m * Pow10(e - b.e)

\* the band test: price <= border for Ask, price >= border for Bid
C12_InBand(entry) ==
    IF forder_type = "Ask" THEN Cmp(entry.price, fborder_price) <= 0
                           ELSE Cmp(entry.price, fborder_price) >= 0

C12_Kept == SelectSeq(fbook, C12_InBand)

\* out stands where the input entry stood: its price is the input price
\* less what display truncation cut off (under a ten-thousandth)
C12_SamePlace(out, in) ==
    /\ Cmp(out.price, in.price) <= 0
    /\ IF in.price.e <= 4 THEN Cmp(in.price, out.price) = 0
       ELSE Cmp(in.price, out.price) < Pow10(in.price.e - 4)

\* C12: the trimmed book has one entry for every input entry whose price
\* is <= the border (Ask) or >= the border (Bid), an entry at the border
\* included, and none for any other; the entries stand in input order.
C12_TrimInclusive ==
    fpc \in {"trimmed", "done"} =>
        /\ Len(fentities) = Len(C12_Kept)
        /\ \A i \in DOMAIN fentities : C12_SamePlace(fentities[i], C12_Kept[i])

\* a book with an entry at the border, which is kept, next to another kept
\* entry, and with an entry that is dropped
C12_Witness ==
    /\ fpc = "trimmed"
    /\ \E i \in DOMAIN fbook : fbook[i].price = fborder_price
    /\ \E j \in DOMAIN fentities : fentities[j].price = fborder_price
    /\ Len(fentities) >= 2
    /\ Len(fentities) < Len(fbook)

\* the place of input entry i in a stable ranking by quantity, from 0
C13_Rank(in, i) ==
    Cardinality({ j \in DOMAIN in :
        \/ Cmp(in[j].qty, in[i].qty) > 0
        \/ Cmp(in[j].qty, in[i].qty) = 0 /\ j < i })

C14_BorderPrice ==
    fpc # "call" =>
        LET hundred == 100 * Pow10(fdepth.e)
            factor == IF forder_type = "Ask" THEN hundred + fdepth.m
                                             ELSE hundred - fdepth.m
            scale == flast_price.e + fdepth.e + 2
        IN  /\ fborder_price.e <= scale
            /\ fborder_price.m * Pow10(scale - fborder_price.e)
                   = flast_price.m * factor
            /\ forder_type = "Ask" => Cmp(fborder_price, flast_price) >= 0
            /\ forder_type = "Bid" => Cmp(fborder_price, flast_price) <= 0
            /\ (flast_price = [m |-> 200, e |-> 0] /\ fdepth = [m |-> 10, e |-> 0]) =>
                   fborder_price = [m |-> IF forder_type = "Ask" THEN 220 ELSE 180,
                                    e |-> 0]

\* the Bid border of 100.5 at depth 2.5 has been computed
C14_Witness ==
    /\ fpc = "border"
    /\ forder_type = "Bid"
    /\ flast_price = [m |-> 1005, e |-> 1]
    /\ fdepth = [m |-> 25, e |-> 1]
    /\ fborder_price = [m |-> 979875, e |-> 4]

\* C15: every entry of the trimmed book, and so of the filter's result, has
\* the quantity of the input entry it comes from.
C15_QuantityPassedThrough ==
    fpc \in {"trimmed", "done"} =>
        /\ Len(fentities) = Len(C12_Kept)
        /\ \A i \in DOMAIN fentities : fentities[i].qty = C12_Kept[i].qty
        /\ fpc = "done" => Range(fresult) \subseteq Range(fentities)

\* trim_order_book_entity has returned an entry whose quantity is the input
\* quantity times the truncated price
C15_Notional ==
    /\ fmod = "order_book"
    /\ fpc = "done"
    /\ fresult # <<>>
    /\ \E i \in DOMAIN fentities :
          /\ fentities[i].qty # C12_Kept[i].qty
          /\ fentities[i].qty = DecMul(C12_Kept[i].qty, fentities[i].price)
          /\ fentities[i] \in Range(fresult)

\* a positive price cut to four fractional digits, nothing rounded up
C16_Truncated(price) ==
    IF price.e <= 4 THEN price
    ELSE [m |-> price.m \div Pow10(price.e - 4), e |-> 4]

\* C16: the price of every surviving entry is the input price truncated
\* to four fractional digits, and the entries that survive are those whose
\* untruncated price is in the band.
C16_PriceTruncatedToFour ==
    fpc \in {"trimmed", "done"} =>
        /\ Len(fentities) = Len(C12_Kept)
        /\ \A i \in DOMAIN fentities :
               Cmp(fentities[i].price, C16_Truncated(C12_Kept[i].price)) = 0
        /\ fpc = "done" => Range(fresult) \subseteq Range(fentities)

\* trim_order_book_entity has returned a price with a fifth fractional
\* digit
C16_FiveDigits ==
    /\ fmod = "order_book"
    /\ fpc = "done"
    /\ \E i \in DOMAIN fresult : fresult[i].price.e = 5

\* the books of scenario 1 and its expected Ask result
C17_Asks ==
    << [price |-> [m |-> 100, e |-> 0], qty |-> [m |-> 1, e |-> 0]],
       [price |-> [m |-> 150, e |-> 0], qty |-> [m |-> 10, e |-> 0]],
       [price |-> [m |-> 200, e |-> 0], qty |-> [m |-> 2, e |-> 0]],
       [price |-> [m |-> 250, e |-> 0], qty |-> [m |-> 1, e |-> 0]] >>

C17_Bids ==
    << [price |-> [m |-> 90, e |-> 0], qty |-> [m |-> 10, e |-> 0]],
       [price |-> [m |-> 85, e |-> 0], qty |-> [m |-> 100, e |-> 0]],
       [price |-> [m |-> 80, e |-> 0], qty |-> [m |-> 2, e |-> 0]],
       [price |-> [m |-> 75, e |-> 0], qty |-> [m |-> 1, e |-> 0]] >>

C17_RankedAsks == << C17_Asks[2], C17_Asks[3], C17_Asks[1] >>

C17_Scenario ==
    /\ fpc = "done"
    /\ flast_price = [m |-> 200, e |-> 0]
    /\ fdepth = [m |-> 10, e |-> 0]

\* C17: with last price 200 and depth 10 the Ask filter returns
\* [(150,10),(200,2),(100,1)] for the asks [(100,1),(150,10),(200,2),(250,1)]
\* and the Bid filter returns the empty sequence for the bids
\* [(90,10),(85,100),(80,2),(75,1)].
C17_ScenarioOne ==
    /\ (C17_Scenario /\ forder_type = "Ask" /\ fbook = C17_Asks) =>
           fresult = C17_RankedAsks
    /\ (C17_Scenario /\ forder_type = "Bid" /\ fbook = C17_Bids) =>
           fresult = <<>>

\* process_order_book_entity has returned the asks of the scenario ranked
\* by price times quantity
C17_NotionalAsks ==
    /\ C17_Scenario /\ forder_type = "Ask" /\ fbook = C17_Asks
    /\ fmod = "order_book"
    /\ fresult = << [price |-> [m |-> 150, e |-> 0], qty |-> [m |-> 1500, e |-> 0]],
                    [price |-> [m |-> 200, e |-> 0], qty |-> [m |-> 400, e |-> 0]],
                    [price |-> [m |-> 100, e |-> 0], qty |-> [m |-> 100, e |-> 0]] >>

\* C18: sort_and_filter applied to the bids [(90,10),(85,100),(80,2),(75,1)]
\* returns them in their input order.
C18_BidsKeepInputOrder ==
    (fpc = "done" /\ fentities = C17_Bids) => fresult = C17_Bids

\* sort_and_filter has returned the bids with (85,100) first
C18_BidsRanked ==
    /\ fpc = "done"
    /\ fentities = C17_Bids
    /\ fresult = << C17_Bids[2], C17_Bids[1], C17_Bids[3], C17_Bids[4] >>

(***************************************************************************)
(* The cache store, under CacheSpec.                                       *)
(***************************************************************************)
\* C19: whenever the store holds no foreign value under a symbol's key,
\* get_order_book(symbol) returns Some(book) with book equal, entry by
\* entry, to the book add_order_book last stored for that symbol and that
\* has not expired, and None if there is none: never the book of another
\* symbol.
C19_CacheRoundTrip ==
    \A symbol \in BookSymbols :
        LET got == RedisGetOrderBook(cache[build_redis_key(symbol)], "none")
        IN  cache[build_redis_key(symbol)] # Some(CorruptValue) =>
                /\ got.kind = "Ok"
                /\ got.value = lastAdded[symbol]

\* a book with fractional prices was stored for one symbol and a later call
\* for that symbol got it from the cache, while nothing is stored for the
\* other symbol
C19_Witness ==
    \E q \in Requests :
        /\ qpc[q] = "done"
        /\ qtrace[q] = <<"get_last_price", "cache_get">>
        /\ qob[q].kind = "Ok"
        /\ qob[q].value = OrderBook(FineAsks, FineBids)
        /\ lastAdded[qsym[q]] = Some(qob[q].value)
        /\ \E other \in BookSymbols : other # qsym[q] /\ lastAdded[other] = None

\* the calls of a get_filtered_order_book that failed
C20_FailedCalls(q) == { qtrace[q][i] : i \in DOMAIN qtrace[q] } \ 
                          {"get_last_price", "cache_get", "get_order_book", "cache_set"}

\* C20 as stated: a finished get_filtered_order_book is Ok or Internal, and
\* it is Internal whenever an exchange call or a cache-store call of it
\* failed.
C20_EveryFailureInternal ==
    \A q \in Requests :
        qpc[q] = "done" =>
            /\ qres[q].kind \in {"Ok", "Internal"}
            /\ C20_FailedCalls(q) # {} => qres[q].kind = "Internal"

\* C20: a finished get_filtered_order_book is Ok or Internal, never
\* SymbolNotFound, UnsupportedSymbol or Unauthorized; a failed exchange call
\* and a failed cache-store read reach the caller as Internal with the
\* message of the failure; a failed cache-store write does not reach the
\* caller, who gets Ok.
C20_OnlyInternal ==
    \A q \in Requests :
        qpc[q] = "done" =>
            /\ qres[q].kind \in {"Ok", "Internal"}
            /\ C20_FailedCalls(q) \ {"cache_set_failed"} # {} =>
                   /\ qres[q].kind = "Internal"
                   /\ qres[q] = qerr[q]
            /\ "cache_set_failed" \in C20_FailedCalls(q) => qres[q].kind = "Ok"

\* the exchange did not deliver the order book after a cache miss and the
\* caller got Internal with the exchange's message
C20_Witness ==
    \E q \in Requests :
        /\ qpc[q] = "done"
        /\ qtrace[q] = <<"get_last_price", "cache_get", "get_order_book_failed">>
        /\ qres[q] = Internal("Binance returned no data")

(***************************************************************************)
(* Concurrent calls, under RaceSpec.                                       *)
(***************************************************************************)
\* a call that saw a miss can make its live fetch, wherever the other call
\* stands
C21_NoWaiting ==
    \A q \in Racers : qpc[q] = "ob_fetch" => ENABLED BookFetchOk(q)

\* the cache write of a call and the return that follows it
C21_WriteStep ==
    \A q \in Racers :
        (qpc[q] = "cache_set" /\ qpc'[q] = "done") =>
            /\ qob'[q].kind = "Ok"
            /\ qob'[q].value = qbook[q]
            /\ qtrace[q] = <<"get_last_price", "cache_get", "get_order_book">>
            /\ Last(qtrace'[q]) = "cache_set" =>
                   cache'[Key(q)] = Some(to_string(qbook[q]))
            /\ \A p \in Racers \ {q} :
                   /\ qpc'[p] = qpc[p]
                   /\ qbook'[p] = qbook[p]
                   /\ qob'[p] = qob[p]

\* the live fetch of a call touches nothing of the other call
C21_FetchStep ==
    \A q \in Racers :
        (qpc[q] = "ob_fetch" /\ qpc'[q] = "cache_set") =>
            /\ cache' = cache
            /\ \A p \in Racers \ {q} :
                   /\ qpc'[p] = qpc[p]
                   /\ qbook'[p] = qbook[p]

\* C21: of two calls in flight, each that saw a miss makes its own live
\* fetch and returns Ok with the snapshot it fetched; no step of one waits
\* for the other; every successful cache write leaves its writer's
\* snapshot under the key, so the last one stays.
C21_RaceIndependent ==
    []C21_NoWaiting /\ [][C21_WriteStep /\ C21_FetchStep]_vars

\* both calls for one symbol saw a miss, fetched different snapshots and
\* wrote them; each got its own, the cache holds that of the second
C21_Witness ==
    /\ qpc[1] = "done" /\ qpc[2] = "done"
    /\ qsym[1] = qsym[2]
    /\ qtrace[1] = <<"get_last_price", "cache_get", "get_order_book", "cache_set">>
    /\ qtrace[2] = qtrace[1]
    /\ qbook[1] # qbook[2]
    /\ qob[1] = Ok(qbook[1])
    /\ qob[2] = Ok(qbook[2])
    /\ cache[Key(2)] = Some(to_string(qbook[2]))

(***************************************************************************)
(* Who changes the registry, under Spec.                                   *)
(***************************************************************************)
\* only the union step of the refresh task, made under the write guard,
\* changes the registry; no step of a validate call does
C22_Frame ==
    /\ trading_pairs' # trading_pairs => (rpc = "extend" /\ lockWriter)
    /\ \A v \in Validators : vpc'[v] # vpc[v] => trading_pairs' = trading_pairs

\* a lookup made before any refresh has completed finds nothing
C22_EarlyLookup ==
    \A v \in Validators :
        (okCycles = 0 /\ vpc[v] = "reading" /\ vpc'[v] = "done") =>
            /\ trading_pairs = {}
            /\ vres'[v] = SymbolNotFound(Normalize(vin[v]))

Readers == {1, 2}

ReadInit ==
    /\ CacheInit
    /\ FilterIdle
    /\ ChatIdle
    /\ trading_pairs = {}
    /\ lockWriter = FALSE
    /\ lockReaders = {}
    /\ rpc = "tick"
    /\ rdata = <<>>
    /\ ri = 1
    /\ vpc = [v \in Readers |-> "idle"]
    /\ vin = [v \in Readers |-> <<>>]
    /\ vsym = [v \in Readers |-> <<>>]
    /\ vres = [v \in Readers |-> NoResult]
    /\ committed = {}
    /\ outA = {}
    /\ outB = {}
    /\ okCycles = 0
    /\ everTrading = {}

\* the refresh task's cycles up to and including its first successful one
ReadNext ==
    \/ (okCycles = 0 /\ RefreshTick)
    \/ RefreshFetchOk
    \/ RefreshFetchErr
    \/ RefreshLogErr
    \/ RefreshAcquire
    \/ RefreshInsert
    \/ RefreshRelease
    \/ \E v \in Readers : ValidateCall(v)
    \/ \E v \in Readers : ValidateAcquire(v)
    \/ \E v \in Readers : ValidateLookup(v)
    \/ \E v \in Readers : ValidateReturn(v)

ReadSpec == ReadInit /\ [][ReadNext]_vars

(***************************************************************************)
(* The lock between the refresh task and validate, under ReadSpec.         *)
(***************************************************************************)
\* the write guard is held exactly during the union step
C23_WriteGuard == lockWriter <=> rpc = "extend"

\* while the refresh task sleeps, has its exchange-info call in flight or
\* logs its failure, a validate call that asks for the read guard gets it,
\* whoever else reads, and a call that holds it can finish
C23_ReadersAdmitted ==
    \A v \in Readers :
        /\ (vpc[v] = "wait_read" /\ rpc \in {"tick", "fetch", "failed"}) =>
               ENABLED ValidateAcquire(v)
        /\ vpc[v] = "reading" => ENABLED ValidateLookup(v)

\* C23: the refresh task holds the write guard only during the union and
\* never while its exchange-info call is in flight; a validate call made
\* while that call is pending gets the read guard and completes, and
\* several validate calls hold the read guard together.
C23_WriteOnlyForUnion == C23_WriteGuard /\ C23_ReadersAdmitted

\* both validate calls hold the read guard while the exchange-info call is
\* in flight
C23_Witness ==
    /\ rpc = "fetch"
    /\ lockReaders = Readers
    /\ \A v \in Readers : vpc[v] = "reading"

(***************************************************************************)
(* Progress of the refresh task, under LiveSpec: ReadSpec with the         *)
(* scheduling the runtime gives. The interval fires again after every      *)
(* cycle, a task that can run is run, and the lock serves a queued writer  *)
(* once the read guards taken before it are dropped. Nothing makes the     *)
(* exchange answer, and nothing makes a user send a message.               *)
(***************************************************************************)
LiveFairness ==
    /\ WF_vars(okCycles = 0 /\ RefreshTick)
    /\ WF_vars(RefreshLogErr)
    /\ WF_vars(RefreshAcquire)
    /\ WF_vars(RefreshInsert)
    /\ WF_vars(RefreshRelease)
    /\ \A v \in Readers : WF_vars(ValidateAcquire(v))
    /\ \A v \in Readers : WF_vars(ValidateLookup(v))

LiveSpec == ReadSpec /\ LiveFairness

\* the symbols an exchange-info answer can list
ListedSymbols == { e.symbol : e \in ExchangeEntries }

\* a lookup of a symbol the registry holds returns Ok of it
C24_LookupOk ==
    \A v \in Readers :
        (vpc[v] = "reading" /\ vpc'[v] = "done" /\ vsym[v] \in trading_pairs) =>
            vres'[v] = Ok(vsym[v])

\* C24: after a failed cycle the refresh task asks the exchange again; once
\* an exchange-info call has succeeded and listed S as a TRADING symbol
\* ending with USDT, S is eventually in the registry and stays, and every
\* lookup of a symbol in the registry returns Ok of it.
C24_EventuallyRegistered ==
    /\ (rpc = "failed") ~> (rpc = "fetch")
    /\ \A S \in ListedSymbols :
           (rpc = "wait_write" /\ S \in Range(rdata)) ~> [](S \in trading_pairs)
    /\ [][C24_LookupOk]_vars

\* the union of the first successful answer is done and both validate
\* calls of the symbol it listed returned Ok
C24_Witness ==
    /\ okCycles = 1
    /\ SOLUSDT \in outB
    /\ \A v \in Readers : vpc[v] = "done" /\ vres[v] = Ok(SOLUSDT)

(***************************************************************************)
(* The expiry of cache entries, under TtlSpec.                             *)
(***************************************************************************)
\* a successful add_order_book leaves its key with 60 seconds to live
C25_WriteStep ==
    \A q \in Callers :
        (qpc[q] = "cache_set" /\ Last(qtrace'[q]) = "cache_set") =>
            /\ ttl'[Key(q)] = 60
            /\ age'[Key(q)] = 0
            /\ \A k \in CacheKeys \ {Key(q)} : ttl'[k] = ttl[k] /\ cache'[k] = cache[k]

\* nothing else prolongs an entry, and an entry goes only by running out
C25_NoOtherRefresh ==
    \A k \in CacheKeys :
        /\ ttl'[k] > ttl[k] =>
               \E q \in Callers :
                   /\ qpc[q] = "cache_set"
                   /\ Key(q) = k
                   /\ Last(qtrace'[q]) = "cache_set"
        /\ (cache[k].some /\ ~cache'[k].some) => (ttl[k] > 0 /\ ttl'[k] = 0)

\* a snapshot answered from the cache was stored at most 60 seconds before
C25_HitStep ==
    \A q \in Callers :
        (qpc[q] = "cache_get" /\ qpc'[q] = "done" /\ qob'[q].kind = "Ok") =>
            /\ age[Key(q)] <= 60
            /\ lastAdded[qsym[q]] = Some(qob'[q].value)

\* 60 seconds after the last store, a read the store answers is a miss and
\* the call goes on to the live fetch
C25_ExpiredStep ==
    \A q \in Callers :
        (qpc[q] = "cache_get" /\ age[Key(q)] >= 60 /\ Last(qtrace'[q]) = "cache_get") =>
            /\ ~cache[Key(q)].some
            /\ qpc'[q] = "ob_fetch"

\* C25: every cache write gives its key exactly 60 seconds to live and
\* nothing else prolongs or deletes an entry, so a snapshot answered from
\* the cache was written at most 60 seconds before the read, and once the
\* entry has expired the next read for the symbol is a miss followed by the
\* live fetch.
C25_SixtySeconds ==
    [][C25_WriteStep /\ C25_NoOtherRefresh /\ C25_HitStep /\ C25_ExpiredStep]_vars

\* a call was answered from the cache 59 seconds after the entry was
\* stored, one second before it expires
C25_Witness ==
    \E q \in Callers :
        /\ qpc[q] = "done"
        /\ qtrace[q] = <<"get_last_price", "cache_get">>
        /\ qob[q].kind = "Ok"
        /\ age[Key(q)] = 59
        /\ ttl[Key(q)] = 1

\* the entry has expired and the call that came next saw a miss and made
\* the live fetch
C25_WitnessExpired ==
    \E q \in Callers :
        /\ qpc[q] = "cache_set"
        /\ qtrace[q] = <<"get_last_price", "cache_get", "get_order_book">>
        /\ age[Key(q)] = 60
        /\ ttl[Key(q)] = 0

(***************************************************************************)
(* The symbol the chat dialogue fetches an order book for, under           *)
(* DialogueSpec.                                                           *)
(***************************************************************************)
\* a symbol validate_symbol returned Ok for in the chat: it is not
\* denylisted and the registry holds it
C26_Validated(c, symbol) ==
    /\ symbol \in validated[c]
    /\ symbol \notin Denylisted
    /\ symbol \in trading_pairs

\* the token of ReceiveFilters and the symbol of a get_filtered_order_book
\* call in progress are validated symbols, and the call is made in
\* ReceiveFilters with its token
C26_TokenValidated ==
    \A c \in Chats :
        /\ dstate[c].name = "ReceiveFilters" => C26_Validated(c, dstate[c].token)
        /\ qpc[c] # "idle" =>
               /\ dstate[c] = ReceiveFilters(qsym[c])
               /\ C26_Validated(c, qsym[c])

\* ReceiveFilters is entered only by receive_token's match on Ok(validated),
\* with the validated symbol; a call starts only from ReceiveFilters
C26_EnterStep ==
    \A c \in Chats :
        /\ (dstate'[c].name = "ReceiveFilters" /\ dstate'[c] # dstate[c]) =>
               /\ dstate[c] = ReceiveToken
               /\ vpc[c] = "done"
               /\ vres[c] = Ok(dstate'[c].token)
        /\ (qpc[c] = "idle" /\ qpc'[c] # "idle") =>
               /\ dstate[c].name = "ReceiveFilters"
               /\ qsym'[c] = dstate[c].token

\* C26: in a chat, get_filtered_order_book is called only in state
\* ReceiveFilters and with its token; ReceiveFilters is entered only from
\* receive_token when validate_symbol returned Ok, with the symbol it
\* returned; so the symbol of every call was validated earlier in the chat,
\* is not denylisted and is in the registry.
C26_OnlyValidatedFetched == []C26_TokenValidated /\ [][C26_EnterStep]_vars

\* the chat sent "sol", got SOLUSDT validated, pressed 10% and the order
\* book for SOLUSDT came back
C26_Witness ==
    \E c \in Chats :
        /\ dstate[c] = ReceiveFilters(SOLUSDT)
        /\ validated[c] = {SOLUSDT}
        /\ qpc[c] = "done"
        /\ qsym[c] = SOLUSDT
        /\ qdepth[c] = Dec(10, 0)
        /\ qres[c].kind = "Ok"

(***************************************************************************)
(* validate_symbol called on what validate_symbol returned, the registry   *)
(* staying as it is: no refresh step is taken, and the registry is any set *)
(* the refresh task can have built.                                        *)
(***************************************************************************)
RegistryStates ==
    SUBSET { e.symbol : e \in { x \in ExchangeEntries : IsUsdtTrading(x) } }

\* call w is validate_symbol(s) for the s call v ended with: the call up to
\* `self.trading_pairs.read().await`
Revalidate(v, w) ==
    /\ v # w
    /\ vpc[v] = "done"
    /\ vpc[w] = "idle"
    /\ LET raw == vres[v].value
           symbol == Normalize(raw)
       IN  /\ vin' = [vin EXCEPT ![w] = raw]
           /\ vsym' = [vsym EXCEPT ![w] = symbol]
           /\ IF IsException(symbol)
              THEN /\ vres' = [vres EXCEPT ![w] = UnsupportedSymbol(symbol)]
                   /\ vpc' = [vpc EXCEPT ![w] = "done"]
              ELSE /\ vres' = [vres EXCEPT ![w] = NoResult]
                   /\ vpc' = [vpc EXCEPT ![w] = "wait_read"]
    /\ UNCHANGED <<trading_pairs, lockWriter, lockReaders, refreshVars>>
    /\ UNCHANGED <<cacheVars, filterVars, chatVars>>

StableInit ==
    /\ CacheInit
    /\ FilterIdle
    /\ ChatIdle
    /\ trading_pairs \in RegistryStates
    /\ lockWriter = FALSE
    /\ lockReaders = {}
    /\ rpc = "tick"
    /\ rdata = <<>>
    /\ ri = 1
    /\ vpc = [v \in Readers |-> "idle"]
    /\ vin = [v \in Readers |-> <<>>]
    /\ vsym = [v \in Readers |-> <<>>]
    /\ vres = [v \in Readers |-> NoResult]
    /\ committed = trading_pairs
    /\ outA = {}
    /\ outB = trading_pairs
    /\ okCycles = IF trading_pairs = {} THEN 0 ELSE 1
    /\ everTrading = trading_pairs

StableNext ==
    \/ \E v \in Readers : ValidateCall(v)
    \/ \E v \in Readers, w \in Readers : Revalidate(v, w)
    \/ \E v \in Readers : ValidateAcquire(v)
    \/ \E v \in Readers : ValidateLookup(v)
    \/ \E v \in Readers : ValidateReturn(v)

StableSpec == StableInit /\ [][StableNext]_vars

(***************************************************************************)
(* validate_symbol on its own output, under StableSpec.                    *)
(***************************************************************************)
\* C27: with the registry fixed, the symbol a finished validate call
\* carries, in Ok or in its error, is its own normalization, and a
\* validate call given that symbol ends with the same result: Ok(s) again,
\* or the same error with the same s.
C27_StableOnOutput ==
    \A v \in Readers, w \in Readers :
        (vpc[v] = "done" /\ vpc[w] = "done" /\ vin[w] = vres[v].value) =>
            /\ Normalize(vres[v].value) = vres[v].value
            /\ vsym[w] = vin[w]
            /\ vres[w] = vres[v]

\* "sol" was answered Ok(SOLUSDT), and SOLUSDT was then answered
\* Ok(SOLUSDT)
C27_Witness ==
    \E v \in Readers, w \in Readers :
        /\ v # w
        /\ vpc[v] = "done" /\ vpc[w] = "done"
        /\ vin[v] = <<"s", "o", "l">>
        /\ vres[v] = Ok(SOLUSDT)
        /\ vin[w] = SOLUSDT
        /\ vres[w] = Ok(SOLUSDT)

\* "wbtc" was refused as WBTCUSDT, and WBTCUSDT was refused the same way
C27_WitnessError ==
    \E v \in Readers, w \in Readers :
        /\ v # w
        /\ vpc[v] = "done" /\ vpc[w] = "done"
        /\ vin[v] = <<"w", "b", "t", "c">>
        /\ vin[w] = WBTCUSDT
        /\ vres[w] = UnsupportedSymbol(WBTCUSDT)

====
